---- MODULE Spec2Model ----
(***************************************************************************)
(* A model of the commit-message linter: the pure pipeline                 *)
(*     parseCommitMessage -> lintCommit -> applyFixes                      *)
(* of src/src/core.ts and of its modular re-implementation (parser, rules  *)
(* and fixes modules, src/unnamed/part_003, part_002, part_001).           *)
(*                                                                         *)
(* A text is a sequence of one-character strings, "\n" being the line      *)
(* break.  The value Null stands for JavaScript's null, the value Thrown   *)
(* for a call that ended in a TypeError.                                   *)
(*                                                                         *)
(* The repository holds two builds of the core that differ in three        *)
(* places (the header pattern and the spacing two fixes write); the        *)
(* variable build names the one a behaviour runs.                          *)
(***************************************************************************)
EXTENDS Integers, Sequences, FiniteSets, TLC

VARIABLES build, text, choice, pc, parsed, issues, fixed, cur, k,
          applied, single, reparsed, reissues, asked, input, state, dom,
          event

vars == <<build, text, choice, pc, parsed, issues, fixed, cur, k,
          applied, single, reparsed, reissues, asked, input, state, dom,
          event>>

-----------------------------------------------------------------------------
(* Characters and strings                                                  *)

UpperCase == <<"A","B","C","D","E","F","G","H","I","J","K","L","M",
               "N","O","P","Q","R","S","T","U","V","W","X","Y","Z">>

LowerCase == <<"a","b","c","d","e","f","g","h","i","j","k","l","m",
               "n","o","p","q","r","s","t","u","v","w","x","y","z">>

Digits == {"0","1","2","3","4","5","6","7","8","9"}

Range(s) == {s[i] : i \in 1..Len(s)}

\* [a-z] and [A-Z]
IsLower(c) == c \in Range(LowerCase)

IsUpper(c) == c \in Range(UpperCase)

\* [a-zA-Z]
Letters == Range(LowerCase) \cup Range(UpperCase)

IsLetter(c) == c \in Letters

\* [a-z0-9] under the i flag
Alnums == Letters \cup Digits

IsAlnum(c) == c \in Alnums

\* \s, and what String.prototype.trim strips (the ASCII part of it)
Spaces == {" ", "\t", "\n", "\r", "\f"}

IsSpace(c) == c \in Spaces

\* what . matches: anything but a line terminator
IsDot(c) == c \notin {"\n", "\r"}

Null == <<"<null>">>

Thrown == <<"<TypeError>">>

\* String.prototype.toLowerCase on one character
toLowerChar(c) ==
    IF IsUpper(c)
    THEN LowerCase[CHOOSE i \in 1..26 : UpperCase[i] = c]
    ELSE c

toLowerCase(s) == [i \in 1..Len(s) |-> toLowerChar(s[i])]

\* s.slice(i) with a 0-based index i, 0 <= i
slice(s, i) == SubSeq(s, i + 1, Len(s))

AllSpace(s) == \A i \in 1..Len(s) : IsSpace(s[i])

\* String.prototype.trim
trim(s) ==
    IF AllSpace(s) THEN <<>>
    ELSE LET first == CHOOSE i \in 1..Len(s) :
                          /\ ~IsSpace(s[i])
                          /\ \A j \in 1..(i - 1) : IsSpace(s[j])
             last  == CHOOSE i \in 1..Len(s) :
                          /\ ~IsSpace(s[i])
                          /\ \A j \in (i + 1)..Len(s) : IsSpace(s[j])
         IN  SubSeq(s, first, last)

\* s.indexOf(c), 0-based, -1 when c does not occur
indexOf(s, c) ==
    IF \E i \in 1..Len(s) : s[i] = c
    THEN (CHOOSE i \in 1..Len(s) :
              s[i] = c /\ \A j \in 1..(i - 1) : s[j] # c) - 1
    ELSE -1

\* the text before the 0-based index i and the text from i on
cutAt(s, i) == [head |-> SubSeq(s, 1, i), tail |-> slice(s, i)]

\* s.split('\n'), given the index of the first "\n" of s
RECURSIVE splitFrom(_, _)
splitFrom(s, i) ==
    IF i = -1 THEN <<s>>
    ELSE <<SubSeq(s, 1, i)>>
             \o splitFrom(slice(s, i + 1), indexOf(slice(s, i + 1), "\n"))

\* s.split('\n'): always at least one line
split(s) == splitFrom(s, indexOf(s, "\n"))

\* lines.join('\n')
RECURSIVE join(_)
join(lines) ==
    IF Len(lines) = 0 THEN <<>>
    ELSE IF Len(lines) = 1 THEN lines[1]
    ELSE lines[1] \o <<"\n">> \o join(Tail(lines))

\* the length of the longest prefix of s whose characters are all in S
\* (member) or all outside S (~member): a greedy run of one character class
PrefixLen(s, S, member) ==
    IF \A i \in 1..Len(s) : (s[i] \in S) = member THEN Len(s)
    ELSE (CHOOSE i \in 1..Len(s) :
              /\ (s[i] \in S) # member
              /\ \A j \in 1..(i - 1) : (s[j] \in S) = member) - 1

\* s without its leading run of whitespace: what is left after a greedy \s*
dropSpaces(s) == slice(s, PrefixLen(s, Spaces, TRUE))

-----------------------------------------------------------------------------
(* The parser                                                              *)

\* the two builds of the core
Builds == {"core", "modular"}

\* (\([^)]*\))? after the type: close is the index of the first ")" of after
scopeAfterType(type, after, close) ==
    IF Len(after) > 0 /\ after[1] = "(" /\ close # -1
    THEN [type  |-> type, has |-> TRUE,
          scope |-> SubSeq(after, 1, close + 1),
          rest  |-> slice(after, close + 1)]
    ELSE [type |-> type, has |-> FALSE, scope |-> <<>>, rest |-> after]

typeThenScope(c) == scopeAfterType(c.head, c.tail, indexOf(c.tail, ")"))

\* The leading part ^([a-zA-Z]+)(\([^)]*\))? common to the header patterns:
\* the type, the scope with its parentheses (empty when there is none) and
\* what follows.  Both quantifiers are greedy, and no shorter choice can
\* make the pattern that follows match when the greedy one does not.
typeScopePrefix(header) == typeThenScope(cutAt(header, PrefixLen(header, Letters, TRUE)))

\* the ':' of the separator and the run of whitespace after it
colonThenSpaces(afterW) ==
    IF Len(afterW) > 0 /\ afterW[1] = ":"
    THEN [colon |-> TRUE, tail |-> dropSpaces(slice(afterW, 1))]
    ELSE [colon |-> FALSE, tail |-> afterW]

\* the separator group, (\s*: ?\s*) or (\s*:?\s*), taken greedily from rest:
\* whether it holds a ':', and what is left for (.*)
separator(rest) == colonThenSpaces(dropSpaces(rest))

\* the groups of the match, given the leading part p and the separator sep;
\* ok = FALSE when the pattern does not match
headerGroups(b, p, sep) ==
    [ok        |-> /\ Len(p.type) > 0
                   /\ (b = "core" => sep.colon)
                   /\ \A i \in 1..Len(sep.tail) : IsDot(sep.tail[i]),
     type      |-> p.type,
     scope     |-> IF p.has THEN SubSeq(p.scope, 2, Len(p.scope) - 1) ELSE Null,
     colonPart |-> SubSeq(p.rest, 1, Len(p.rest) - Len(sep.tail)),
     subject   |-> sep.tail]

headerAfterPrefix(b, p) == headerGroups(b, p, separator(p.rest))

\* header.match(headerPattern).  core.ts line 129:
\*     /^([a-zA-Z]+)(?:\(([^)]*)\))?(\s*: ?\s*)(.*)$/     the ':' is required
\* the parser module (part_003 line 28):
\*     /^([a-zA-Z]+)(?:\(([^)]*)\))?(\s*:?\s*)(.*)$/      the ':' is optional
headerPattern(b, header) == headerAfterPrefix(b, typeScopePrefix(header))

\* x || null for a string x
orNull(s) == IF Len(s) = 0 THEN Null ELSE s

\* lines.findIndex((line, i) => i > 0 && line.trim() === ''), 0-based
firstBlankLine(lines) ==
    IF \E i \in 2..Len(lines) : AllSpace(lines[i])
    THEN (CHOOSE i \in 2..Len(lines) :
              /\ AllSpace(lines[i])
              /\ \A j \in 2..(i - 1) : ~AllSpace(lines[j])) - 1
    ELSE -1

\* a body that starts on the second line wherever the blank line is
bodyStartSecondLine(lines, blankLineIndex) ==
    IF blankLineIndex = -1 THEN -1 ELSE 1

bodyStartAfter(lines, blankLineIndex) ==
    IF blankLineIndex = -1 THEN -1
    ELSE IF blankLineIndex >= Len(lines) - 1 THEN -1
    ELSE IF \E j \in (blankLineIndex + 2)..Len(lines) : ~AllSpace(lines[j])
    THEN blankLineIndex + 1
    ELSE -1

\* findBodyStartIndex: the 0-based index of the first body line, -1 for null
findBodyStartIndex(lines) ==
    IF Len(lines) < 2 THEN -1
    ELSE bodyStartAfter(lines, firstBlankLine(lines))

\* a test that holds only where the parser found a body
hasFoundBodyWithoutBlankLine(lines) ==
    IF findBodyStartIndex(lines) = -1 THEN FALSE
    ELSE ~AllSpace(lines[2])

\* hasBodyWithoutBlankLine
hasBodyWithoutBlankLine(lines) ==
    IF Len(lines) < 2 THEN FALSE
    ELSE ~AllSpace(lines[2])

\* the error of the failure outcome ('Pusta wiadomość commita')
ParseError == "Pusta wiadomosc commita"

\* the ParsedCommit, given the match of the header and the body's first line
ParsedCommit(t, lines, match, bodyStartIndex) ==
    [ok       |-> TRUE,
     raw      |-> t,
     header   |-> lines[1],
     type     |-> IF match.ok THEN match.type ELSE Null,
     scope    |-> IF match.ok THEN match.scope ELSE Null,
     subject  |-> IF match.ok THEN orNull(trim(match.subject))
                  ELSE orNull(trim(lines[1])),
     hasColon |-> match.ok /\ indexOf(match.colonPart, ":") # -1,
     body     |-> IF bodyStartIndex # -1
                  THEN orNull(trim(join(
                           SubSeq(lines, bodyStartIndex + 1, Len(lines)))))
                  ELSE Null,
     lines    |-> lines]

parseLines(b, t, lines) ==
    ParsedCommit(t, lines, headerPattern(b, lines[1]), findBodyStartIndex(lines))

\* a parser that tests the length of the text in place of the trimmed text
parseUntrimmed(b, t, trimmed) ==
    IF Len(t) = 0
    THEN [ok |-> FALSE, error |-> ParseError]
    ELSE parseLines(b, t, split(trimmed))

\* a parser that takes the lines of the text as it was given
parseRawLines(b, t, trimmed) ==
    IF Len(trimmed) = 0
    THEN [ok |-> FALSE, error |-> ParseError]
    ELSE parseLines(b, t, split(t))

parseTrimmed(b, t, trimmed) ==
    IF Len(trimmed) = 0
    THEN [ok |-> FALSE, error |-> ParseError]
    ELSE parseLines(b, t, split(trimmed))

\* parseCommitMessage of build b.  The result is the ParseResult with the
\* fields of its ParsedCommit beside ok.
parseCommitMessageOf(b, t) == parseTrimmed(b, t, trim(t))

parseCommitMessage(t) == parseCommitMessageOf(build, t)

\* preProcess
preProcess(t) == trim(t)

-----------------------------------------------------------------------------
(* The rules                                                               *)

S_feat     == <<"f","e","a","t">>
S_fix      == <<"f","i","x">>
S_docs     == <<"d","o","c","s">>
S_style    == <<"s","t","y","l","e">>
S_refactor == <<"r","e","f","a","c","t","o","r">>
S_perf     == <<"p","e","r","f">>
S_test     == <<"t","e","s","t">>
S_build    == <<"b","u","i","l","d">>
S_ci       == <<"c","i">>
S_chore    == <<"c","h","o","r","e">>
S_revert   == <<"r","e","v","e","r","t">>

VALID_TYPES == <<S_feat, S_fix, S_docs, S_style, S_refactor, S_perf,
                 S_test, S_build, S_ci, S_chore, S_revert>>

\* the header and line length thresholds
R7_MAX  == 100
R7_WARN == 72
R9_MAX  == 100
R9_WARN == 75

\* the width wrapLongLine wraps at
WRAP_WIDTH == 72

\* a case-insensitive test that compares the type as written
isValidTypeAsWritten(s) == s \in Range(VALID_TYPES)

isValidTypeCaseInsensitive(s) == toLowerCase(s) \in Range(VALID_TYPES)

isValidType(s) == s \in Range(VALID_TYPES)

\* /^[a-z0-9]+(?: [-_][a-z0-9]+)*$/i : in the source the group opens with a
\* literal space, so a separator must come after exactly one space
RECURSIVE isValidScope(_)
scopeFrom(scope, n) ==
    /\ n >= 1
    /\ \/ n = Len(scope)
       \/ /\ Len(scope) >= n + 2
          /\ scope[n + 1] = " "
          /\ scope[n + 2] \in {"-", "_"}
          /\ isValidScope(slice(scope, n + 2))

isValidScope(scope) == scopeFrom(scope, PrefixLen(scope, Alnums, TRUE))

\* A fix action; kind "null" is the absent fix.  Every fix has all the
\* fields, the ones its kind does not carry holding a default.
FixAction(kind, original, lineIndex, choiceType) ==
    [kind |-> kind, original |-> original, lineIndex |-> lineIndex,
     choiceType |-> choiceType]

NoFix == FixAction("null", <<>>, -1, "none")

FixLowercaseType(original) == FixAction("lowercase-type", original, -1, "none")

FixInsertColon == FixAction("insert-colon", <<>>, -1, "none")

FixRemoveTrailingPeriod == FixAction("remove-trailing-period", <<>>, -1, "none")

FixEnsureBlankLine == FixAction("ensure-blank-line", <<>>, -1, "none")

FixWrapLongLine(lineIndex) == FixAction("wrap-long-line", <<>>, lineIndex, "none")

FixRequireUserChoice == FixAction("require-user-choice", <<>>, -1, "type")

\* A message of MESSAGES: the template and what it is filled with
Message(id, t, n, len) == [id |-> id, t |-> t, n |-> n, len |-> len]

createIssue(rule, severity, message, fix) ==
    [rule |-> rule, severity |-> severity, message |-> message, fix |-> fix]

\* what a rule returns when it finds nothing (null)
NoIssue == createIssue("null", "none", Message("none", <<>>, 0, 0), NoFix)

checkR1HeaderExists(p) ==
    IF AllSpace(p.header)
    THEN createIssue("R1", "error", Message("R1_EMPTY", <<>>, 0, 0), NoFix)
    ELSE NoIssue

checkR2ValidType(p) ==
    IF p.type = Null
    THEN createIssue("R2", "error", Message("R2_MISSING", <<>>, 0, 0),
                     FixRequireUserChoice)
    ELSE IF isValidType(p.type) THEN NoIssue
    ELSE IF isValidTypeCaseInsensitive(p.type)
    THEN createIssue("R2", "error", Message("R2_LOWERCASE", p.type, 0, 0),
                     FixLowercaseType(p.type))
    ELSE createIssue("R2", "error", Message("R2_INVALID", p.type, 0, 0),
                     FixRequireUserChoice)

checkR3ValidScope(p) ==
    IF p.scope = Null THEN NoIssue
    ELSE IF p.scope = <<>> THEN NoIssue
    ELSE IF isValidScope(p.scope) THEN NoIssue
    ELSE createIssue("R3", "error", Message("R3_INVALID", p.scope, 0, 0), NoFix)

\* an R4 that does not ask for a type
checkR4WithoutType(p) ==
    IF ~p.hasColon
    THEN createIssue("R4", "error", Message("R4_MISSING_COLON", <<>>, 0, 0),
                     FixInsertColon)
    ELSE NoIssue

checkR4ColonPresent(p) ==
    IF p.type # Null /\ ~p.hasColon
    THEN createIssue("R4", "error", Message("R4_MISSING_COLON", <<>>, 0, 0),
                     FixInsertColon)
    ELSE NoIssue

\* an R5 that does not look for the colon
checkR5WithoutColon(p) ==
    IF p.type # Null /\ (p.subject = Null \/ p.subject = <<>>)
    THEN createIssue("R5", "error", Message("R5_EMPTY_SUBJECT", <<>>, 0, 0), NoFix)
    ELSE NoIssue

checkR5SubjectNonEmpty(p) ==
    IF p.type # Null /\ p.hasColon /\ (p.subject = Null \/ p.subject = <<>>)
    THEN createIssue("R5", "error", Message("R5_EMPTY_SUBJECT", <<>>, 0, 0), NoFix)
    ELSE NoIssue

\* s.endsWith('.')
endsWithPeriod(s) == Len(s) > 0 /\ s[Len(s)] = "."

checkR6TrailingPeriod(p) ==
    IF p.subject # Null /\ endsWithPeriod(p.subject)
    THEN createIssue("R6", "warning", Message("R6_TRAILING_PERIOD", <<>>, 0, 0),
                     FixRemoveTrailingPeriod)
    ELSE NoIssue

\* an R7 whose thresholds are reached one character early
headerLengthIssueFrom(len) ==
    IF len >= R7_MAX
    THEN createIssue("R7", "error", Message("R7_TOO_LONG", <<>>, 0, len), NoFix)
    ELSE IF len >= R7_WARN
    THEN createIssue("R7", "warning", Message("R7_WARN", <<>>, 0, len), NoFix)
    ELSE NoIssue

headerLengthIssue(len) ==
    IF len > R7_MAX
    THEN createIssue("R7", "error", Message("R7_TOO_LONG", <<>>, 0, len), NoFix)
    ELSE IF len > R7_WARN
    THEN createIssue("R7", "warning", Message("R7_WARN", <<>>, 0, len), NoFix)
    ELSE NoIssue

checkR7HeaderLength(p) == headerLengthIssue(Len(p.header))

checkR8BlankLineBeforeBody(p) ==
    IF hasBodyWithoutBlankLine(p.lines)
    THEN createIssue("R8", "error", Message("R8_BLANK_LINE", <<>>, 0, 0),
                     FixEnsureBlankLine)
    ELSE NoIssue

\* an R9 check whose fix carries the 1-based number of the line
checkR9LineOneBased(line, index) ==
    IF Len(line) > R9_MAX
    THEN createIssue("R9", "error",
                     Message("R9_LINE_LONG", <<>>, index + 1, Len(line)),
                     FixWrapLongLine(index + 1))
    ELSE IF Len(line) > R9_WARN
    THEN createIssue("R9", "warning",
                     Message("R9_LINE_LONG", <<>>, index + 1, Len(line)),
                     FixWrapLongLine(index + 1))
    ELSE NoIssue

\* the check createR9LineChecks makes for the line at 0-based index
checkR9Line(line, index) ==
    IF Len(line) > R9_MAX
    THEN createIssue("R9", "error",
                     Message("R9_LINE_LONG", <<>>, index + 1, Len(line)),
                     FixWrapLongLine(index))
    ELSE IF Len(line) > R9_WARN
    THEN createIssue("R9", "warning",
                     Message("R9_LINE_LONG", <<>>, index + 1, Len(line)),
                     FixWrapLongLine(index))
    ELSE NoIssue

\* the R9 checks from the last line to the first
createR9LineChecksReversed(p) ==
    [i \in 1..Len(p.lines) |->
        checkR9Line(p.lines[Len(p.lines) + 1 - i], Len(p.lines) - i)]

\* the results of the R9 checks, one per line, in line order
createR9LineChecks(p) ==
    [i \in 1..Len(p.lines) |-> checkR9Line(p.lines[i], i - 1)]

IsIssue(x) == x # NoIssue

\* the results of the rules in the order of the rules array
ruleResults(p) ==
    << checkR1HeaderExists(p), checkR2ValidType(p), checkR3ValidScope(p),
       checkR4ColonPresent(p), checkR5SubjectNonEmpty(p),
       checkR6TrailingPeriod(p), checkR7HeaderLength(p),
       checkR8BlankLineBeforeBody(p) >> \o createR9LineChecks(p)

lintCommit(p) == SelectSeq(ruleResults(p), IsIssue)

requiresUserChoice(is) ==
    \E i \in 1..Len(is) : is[i].fix.kind = "require-user-choice"

NeedsChoice(issue) == issue.fix.kind = "require-user-choice"

\* .map(issue => issue.fix.choiceType)
choiceTypesOf(needing) == [i \in 1..Len(needing) |-> needing[i].fix.choiceType]

\* .filter((v, i, a) => a.indexOf(v) === i) on the first n elements of a
RECURSIVE firstOccurrences(_, _)
firstOccurrences(a, n) ==
    IF n = 0 THEN <<>>
    ELSE IF indexOf(a, a[n]) = n - 1
    THEN Append(firstOccurrences(a, n - 1), a[n])
    ELSE firstOccurrences(a, n - 1)

\* a list of the choices that keeps the repetitions
allChoiceTypes(is) == choiceTypesOf(SelectSeq(is, NeedsChoice))

unique(a) == firstOccurrences(a, Len(a))

getRequiredChoices(is) == unique(choiceTypesOf(SelectSeq(is, NeedsChoice)))

-----------------------------------------------------------------------------
(* The fixes                                                               *)

replaceFirst(s, n, r) == IF n = 0 THEN s ELSE r \o slice(s, n)

\* a replacement that keeps a leading run of letters that is a valid type
replaceInvalidLetters(s, r) ==
    IF isValidType(SubSeq(s, 1, PrefixLen(s, Letters, TRUE))) THEN s
    ELSE replaceFirst(s, PrefixLen(s, Letters, TRUE), r)

\* the leading run of letters of s replaced by r: s.replace(/^[a-zA-Z]+/, r)
replaceLeadingLetters(s, r) == replaceFirst(s, PrefixLen(s, Letters, TRUE), r)

\* a fix that puts the whole text in lowercase
lowercaseWholeText(t, original) == toLowerCase(t)

\* text.replace(new RegExp(`^${original}`, 'i'), original.toLowerCase());
\* original is a run of letters, so the pattern holds no metacharacter
lowercaseType(t, original) ==
    IF /\ Len(t) >= Len(original)
       /\ toLowerCase(SubSeq(t, 1, Len(original))) = toLowerCase(original)
    THEN toLowerCase(original) \o slice(t, Len(original))
    ELSE t

\* what the build writes after the type and scope when a subject follows:
\* core.ts line 511 writes ':' and two spaces, the fixes module (part_001
\* line 189) ':' and one space
colonBeforeSubject(b) ==
    IF b = "core" THEN <<":", " ", " ">> ELSE <<":", " ">>

\* what both builds write when no subject follows (core.ts line 512,
\* part_001 line 190)
colonAlone == <<":", " ", " ">>

\* the header insertColonAfterTypeScope writes
fixedHeader(b, p, subject) ==
    IF Len(subject) > 0
    THEN p.type \o p.scope \o colonBeforeSubject(b) \o subject
    ELSE p.type \o p.scope \o colonAlone

\* rest is what (.*) is left with after the greedy (\s*)
insertColonInHeader(b, t, lines, p, rest) ==
    IF Len(p.type) > 0 /\ \A i \in 1..Len(rest) : IsDot(rest[i])
    THEN join(<<fixedHeader(b, p, trim(rest))>> \o Tail(lines))
    ELSE t

insertColonAfterPrefix(b, t, lines, p) ==
    insertColonInHeader(b, t, lines, p, dropSpaces(p.rest))

insertColonInLines(b, t, lines) ==
    insertColonAfterPrefix(b, t, lines, typeScopePrefix(lines[1]))

\* insertColonAfterTypeScope: the header is matched against
\*     /^([a-zA-Z]+)(\([^)]*\))?(\s*)(.*)$/
insertColonAfterTypeScopeOf(b, t) == insertColonInLines(b, t, split(t))

\* header.replace(/\.\s*$/, '')
stripTrailingPeriod(header) ==
    IF \E i \in 1..Len(header) :
           header[i] = "." /\ \A j \in (i + 1)..Len(header) : IsSpace(header[j])
    THEN SubSeq(header, 1,
                (CHOOSE i \in 1..Len(header) :
                     /\ header[i] = "."
                     /\ \A j \in (i + 1)..Len(header) : IsSpace(header[j])) - 1)
    ELSE header

removeTrailingPeriodInLines(lines) ==
    join(<<stripTrailingPeriod(lines[1])>> \o Tail(lines))

removeTrailingPeriodFromSubject(t) == removeTrailingPeriodInLines(split(t))

\* a fix that inserts the empty line whatever line 1 is
ensureBlankLineAlways(t, lines) ==
    IF Len(lines) < 2 THEN t
    ELSE join(<<lines[1], <<>>>> \o Tail(lines))

ensureBlankLineInLines(t, lines) ==
    IF Len(lines) < 2 THEN t
    ELSE IF AllSpace(lines[2]) THEN t
    ELSE join(<<lines[1], <<>>>> \o Tail(lines))

ensureBlankLineAfterHeader(t) == ensureBlankLineInLines(t, split(t))

\* s.split(/\s+/): the pieces between the runs of whitespace; a leading or
\* a trailing run leaves an empty piece.  n is the length of the first piece.
RECURSIVE splitWhitespace(_)
splitWhitespaceAt(s, n) ==
    IF n = Len(s) THEN <<s>>
    ELSE <<SubSeq(s, 1, n)>> \o splitWhitespace(dropSpaces(slice(s, n)))

splitWhitespace(s) == splitWhitespaceAt(s, PrefixLen(s, Spaces, FALSE))

\* a reducer that forgets the line in progress when a word does not fit
wrapWithoutPush(acc, word, testLine, width) ==
    IF Len(testLine) <= width
    THEN [lines |-> acc.lines, current |-> testLine]
    ELSE [lines |-> acc.lines, current |-> word]

\* the reducer of wrapAtWidth on an accumulator [lines, current], given its
\* testLine
wrapWith(acc, word, testLine, width) ==
    IF Len(testLine) <= width
    THEN [lines |-> acc.lines, current |-> testLine]
    ELSE IF Len(acc.current) > 0
    THEN [lines |-> Append(acc.lines, acc.current), current |-> word]
    ELSE [lines |-> acc.lines, current |-> word]

wrapStep(acc, word, width) ==
    wrapWith(acc, word,
             IF Len(acc.current) > 0 THEN acc.current \o <<" ">> \o word
             ELSE word,
             width)

RECURSIVE wrapReduce(_, _, _)
wrapReduce(acc, words, width) ==
    IF Len(words) = 0 THEN acc
    ELSE wrapReduce(wrapStep(acc, words[1], width), Tail(words), width)

\* finalLines.join('\n')
wrapResult(result) ==
    join(IF Len(result.current) > 0
         THEN Append(result.lines, result.current)
         ELSE result.lines)

\* wrapAtWidth
wrapAtWidth(t, width) ==
    wrapResult(wrapReduce([lines |-> <<>>, current |-> <<>>],
                          splitWhitespace(t), width))

\* lines[lineIndex] is undefined past the last line, and undefined.split
\* raises a TypeError
wrapLineOf(lines, lineIndex) ==
    IF lineIndex >= Len(lines) THEN Thrown
    ELSE join(SubSeq(lines, 1, lineIndex)
                \o <<wrapAtWidth(lines[lineIndex + 1], WRAP_WIDTH)>>
                \o SubSeq(lines, lineIndex + 2, Len(lines)))

\* wrapLongLine
wrapLongLine(t, lineIndex) == wrapLineOf(split(t), lineIndex)

\* what the build writes between the chosen type and a text with no ':'
\* (core.ts line 633: two spaces; part_001 line 292: one)
colonAfterChoice(b) ==
    IF b = "core" THEN <<":", " ", " ">> ELSE <<":", " ">>

\* the text has no type: the choice goes before its first ':'
insertChoice(b, t, userChoice, colonIndex) ==
    IF colonIndex # -1
    THEN userChoice \o slice(t, colonIndex)
    ELSE userChoice \o colonAfterChoice(b) \o trim(t)

applyChoiceToParsed(b, t, userChoice, parseResult) ==
    IF ~parseResult.ok THEN t
    ELSE IF parseResult.type = Null
    THEN insertChoice(b, t, userChoice, indexOf(t, ":"))
    ELSE replaceLeadingLetters(t, userChoice)

\* applyUserChoice; userChoice is Null when no type was chosen
applyUserChoiceOf(b, t, choiceType, userChoice) ==
    IF choiceType = "type" /\ userChoice # Null
    THEN applyChoiceToParsed(b, t, userChoice, parseCommitMessageOf(b, t))
    ELSE t

\* applySingleFix of build b
applySingleFixOf(b, t, fix, userChoice) ==
    CASE fix.kind = "trim-whitespace" -> trim(t)
      [] fix.kind = "lowercase-type" -> lowercaseType(t, fix.original)
      [] fix.kind = "insert-colon" -> insertColonAfterTypeScopeOf(b, t)
      [] fix.kind = "remove-trailing-period" -> removeTrailingPeriodFromSubject(t)
      [] fix.kind = "ensure-blank-line" -> ensureBlankLineAfterHeader(t)
      [] fix.kind = "wrap-long-line" -> wrapLongLine(t, fix.lineIndex)
      [] fix.kind = "require-user-choice" ->
             applyUserChoiceOf(b, t, fix.choiceType, userChoice)

applySingleFix(t, fix, userChoice) == applySingleFixOf(build, t, fix, userChoice)

\* applySingleIssueFix
applySingleIssueFix(t, issue, userChoice) ==
    IF issue.fix = NoFix THEN t
    ELSE applySingleFix(t, issue.fix, userChoice)

HasFix(issue) == issue.fix # NoFix

\* the fixes from the last issue to the first (a reduceRight)
fixesOfReversed(withFix) ==
    [i \in 1..Len(withFix) |-> withFix[Len(withFix) + 1 - i].fix]

\* issues.map(issue => issue.fix) on the issues that have one
fixesOf(withFix) == [i \in 1..Len(withFix) |-> withFix[i].fix]

\* fixes.reduce(...): an exception raised by one fix ends the fold
RECURSIVE reduceFixes(_, _, _)
reduceFixes(current, fixes, userChoice) ==
    IF Len(fixes) = 0 \/ current = Thrown THEN current
    ELSE reduceFixes(applySingleFix(current, fixes[1], userChoice),
                     Tail(fixes), userChoice)

\* applyFixes
applyFixes(t, is, userChoice) ==
    reduceFixes(t, fixesOf(SelectSeq(is, HasFix)), userChoice)

-----------------------------------------------------------------------------
(* The texts the pipeline is run on                                        *)

\* the most lines a generated text has after its header
MaxBodyLines == 3

\* the length of the words a generated long line is made of
PadWord == 9

\* n characters of filler: one solid word, or words of PadWord letters
\* separated by single spaces (the last character is never a space)
Pad(n, solid) ==
    [i \in 1..n |->
        IF ~solid /\ i % (PadWord + 1) = 0 /\ i # n THEN " " ELSE "a"]

\* s followed by filler up to the length n
PadTo(s, n, solid) == s \o <<" ">> \o Pad(n - Len(s) - 1, solid)

\* the lengths on both sides of every threshold
Lengths ==
    {R7_WARN, R7_WARN + 1, R9_WARN, R9_WARN + 1, R7_MAX, R7_MAX + 1,
     R9_MAX, R9_MAX + 1}

TypeTokens ==
    {<<>>, S_feat, <<"F","E","A","T">>, <<"F","i","x">>, <<"f","o","o">>}

ScopeTokens ==
    {<<>>,
     <<"(",")">>,
     <<"(","c","o","r","e",")">>,
     <<"(","m","y","-","s","c","o","p","e",")">>,
     <<"(","m","y","_","s","c","o","p","e",")">>,
     <<"(","m","y"," ","-","s","c","o","p","e",")">>,
     <<"(","a"," ","b",")">>,
     <<"(","x">>}

SeparatorTokens == {<<>>, <<":">>, <<" ">>, <<":"," ">>, <<" ",":"," "," ">>}

SubjectTokens ==
    {<<>>,
     <<"a","d","d"," ","p","a","r","s","e","r">>,
     <<"b","u","g",".">>,
     <<"x","."," ">>}

ShortHeaders ==
    {t \o s \o p \o j : t \in TypeTokens, s \in ScopeTokens,
                        p \in SeparatorTokens, j \in SubjectTokens}

\* headers that open the long ones
HeaderStems ==
    {S_feat \o <<":">>, S_feat, <<"F","i","x">>,
     S_fix \o <<"(","c","o","r","e",")",":">>}

LongHeaders ==
    {PadTo(h, n, solid) : h \in HeaderStems, n \in Lengths,
                          solid \in BOOLEAN}

\* the lines a generated text has after its header
BodyLines ==
    {<<>>, <<" ">>, <<"b","o","d","y">>, <<"b",":"," ","x">>,
     Pad(R9_WARN + 1, FALSE), Pad(R9_MAX + 1, FALSE)}

\* the sequences over S of length n or less
SeqsUpTo(S, n) == UNION {[1..m -> S] : m \in 0..n}

Bodies == SeqsUpTo(BodyLines, MaxBodyLines)

\* the bodies every header is tried with
FewBodies == {<<>>, << <<"b","o","d","y">> >>, << <<>>, <<"b","o","d","y">> >>}

\* the headers every body is tried with
FewHeaders ==
    {S_feat \o <<":"," ","x">>, <<"F","i","x"," ","b","u","g",".">>,
     PadTo(S_feat \o <<":">>, R9_MAX + 1, FALSE)}

\* texts that are blank, and texts with whitespace around them
EdgeTexts ==
    {<<>>, <<" "," "," ">>, <<"\n">>, <<" ","\n"," ">>,
     <<" ">> \o S_feat \o <<":"," ","x"," ">>,
     <<"\n">> \o S_feat \o <<":"," ","x","\n","\n">>,
     <<"\n","\n">> \o Pad(R9_MAX + 1, FALSE),
     <<" ","F","E","A","T",":"," ","x">>,
     <<"F","E","A","T",":"," ","T","h","i","n","g">>,
     <<" ">> \o S_feat \o <<" ","x">>,
     <<"\n">> \o S_feat \o <<":"," ","x","\n","b","o","d","y">>,
     S_feat \o <<":"," ","x",".",".">>}

Inputs ==
    EdgeTexts
    \cup {join(<<h>> \o b) : h \in ShortHeaders \cup LongHeaders, b \in FewBodies}
    \cup {join(<<h>> \o b) : h \in FewHeaders, b \in Bodies}

\* the types the user may choose
Choices == {S_feat, S_fix}

-----------------------------------------------------------------------------
(* The pipeline as a state machine: parse, lint, optionally choose a type, *)
(* apply all fixes at once, then apply the issues' fixes one at a time.    *)

NoParse == [ok |-> FALSE, error |-> "not parsed"]

\* requiresUserChoice and getRequiredChoices have not been called
NotAsked == [needs |-> FALSE, required |-> <<>>]

\* the AppState the shell starts with; userChoices is Null when no type is
\* chosen
createInitialState ==
    [currentText |-> <<>>, fixedText |-> <<>>, issues |-> <<>>,
     userChoices |-> Null]

\* what the shell shows: the issues rendered in the list, the choices
\* rendered in the user-choices section and whether that section is
\* visible, the text of the output panel and whether it is visible, whether
\* the copy button is enabled
Dom(issuesList, choicesVisible, required, output, outputVisible, copyEnabled) ==
    [issuesList |-> issuesList, choicesVisible |-> choicesVisible,
     required |-> required, output |-> output,
     outputVisible |-> outputVisible, copyEnabled |-> copyEnabled]

InitialDom == Dom(<<>>, FALSE, <<>>, <<>>, FALSE, FALSE)

Init ==
    /\ build \in Builds
    /\ text \in Inputs
    /\ choice = Null
    /\ pc = "start"
    /\ parsed = NoParse
    /\ issues = <<>>
    /\ fixed = <<>>
    /\ cur = <<>>
    /\ k = 0
    /\ applied = NoFix
    /\ single = <<>>
    /\ reparsed = NoParse
    /\ reissues = <<>>
    /\ asked = NotAsked
    /\ input = <<>>
    /\ state = createInitialState
    /\ dom = InitialDom
    /\ event = "none"

\* parseCommitMessage(text)
Parse ==
    /\ pc = "start"
    /\ parsed' = parseCommitMessage(text)
    /\ pc' = IF parsed'.ok THEN "parsed" ELSE "failed"
    /\ UNCHANGED <<build, text, choice, issues, fixed, cur, k,
                   applied, single, reparsed, reissues>>
    /\ UNCHANGED <<asked, input, state, dom, event>>

\* lintCommit(parseResult.parsed)
Lint ==
    /\ pc = "parsed"
    /\ issues' = lintCommit(parsed)
    /\ pc' = "linted"
    /\ UNCHANGED <<build, text, choice, parsed, fixed, cur, k,
                   applied, single, reparsed, reissues>>
    /\ UNCHANGED <<asked, input, state, dom, event>>

\* the user supplies a type
Choose(c) ==
    /\ pc = "linted"
    /\ choice = Null
    /\ choice' = c
    /\ UNCHANGED <<build, text, pc, parsed, issues, fixed, cur, k,
                   applied, single, reparsed, reissues>>
    /\ UNCHANGED <<asked, input, state, dom, event>>

\* applyFixes(text, issues, userChoices)
ApplyAll ==
    /\ pc = "linted"
    /\ fixed' = applyFixes(text, issues, choice)
    /\ cur' = text
    /\ k' = 1
    /\ pc' = "fixed"
    /\ UNCHANGED <<build, text, choice, parsed, issues,
                   applied, single, reparsed, reissues>>
    /\ UNCHANGED <<asked, input, state, dom, event>>

\* applySingleIssueFix(cur, issues[k], userChoices), for k = 1, 2, ...
FixOne ==
    /\ pc = "fixed"
    /\ k <= Len(issues)
    /\ cur # Thrown
    /\ cur' = applySingleIssueFix(cur, issues[k], choice)
    /\ k' = k + 1
    /\ UNCHANGED <<build, text, choice, pc, parsed, issues, fixed,
                   applied, single, reparsed, reissues>>
    /\ UNCHANGED <<asked, input, state, dom, event>>

\* the fixes tried alone on a text that parsed: those of its issues, the
\* fixes that carry no argument, and the wrapping of each of its lines
SingleFixes ==
    IF pc = "linted"
    THEN ({issues[i].fix : i \in 1..Len(issues)} \ {NoFix})
         \cup {FixInsertColon, FixRemoveTrailingPeriod, FixEnsureBlankLine,
               FixRequireUserChoice}
         \cup {FixWrapLongLine(i) : i \in 0..(Len(split(text)) - 1)}
    ELSE {}

\* applySingleFix(text, f, userChoices): one fix applied alone.  Only
\* require-user-choice reads the choice, so the other fixes are tried
\* without one.
ApplyFix(f) ==
    /\ pc = "linted"
    /\ choice # Null => f.kind = "require-user-choice"
    /\ applied' = f
    /\ single' = applySingleFix(text, f, choice)
    /\ pc' = "one"
    /\ UNCHANGED <<build, text, choice, parsed, issues, fixed, cur, k,
                   reparsed, reissues>>
    /\ UNCHANGED <<asked, input, state, dom, event>>

\* the issues of a parse result: lintCommit when the parse succeeded
relint(p) == IF p.ok THEN lintCommit(p) ELSE <<>>

\* what applyFixes returned is parsed and linted again
Relint ==
    /\ pc = "fixed"
    /\ k = 1
    /\ fixed # Thrown
    /\ reparsed' = parseCommitMessage(fixed)
    /\ reissues' = relint(reparsed')
    /\ pc' = "relinted"
    /\ UNCHANGED <<build, text, choice, parsed, issues, fixed, cur, k,
                   applied, single>>
    /\ UNCHANGED <<asked, input, state, dom, event>>

\* what the single fix returned is parsed and linted again
RelintOne ==
    /\ pc = "one"
    /\ single # Thrown
    /\ reparsed' = parseCommitMessage(single)
    /\ reissues' = relint(reparsed')
    /\ pc' = "relinted-one"
    /\ UNCHANGED <<build, text, choice, parsed, issues, fixed, cur, k,
                   applied, single>>
    /\ UNCHANGED <<asked, input, state, dom, event>>

Next ==
    \/ Parse
    \/ Lint
    \/ \E c \in Choices : Choose(c)
    \/ ApplyAll
    \/ FixOne
    \/ \E f \in SingleFixes : ApplyFix(f)
    \/ Relint
    \/ RelintOne

Spec == Init /\ [][Next]_vars

-----------------------------------------------------------------------------
(* The shell: the handlers of main, on the state and what is shown.  The   *)
(* shell of part_005 goes with core.ts, the shell of part_004 with the     *)
(* modules.  event is the handler that ran last.                           *)

\* the issues of a parse result: those of lintCommit, or the one issue that
\* stands for the parse failure
issuesOfParse(parseResult) ==
    IF parseResult.ok THEN lintCommit(parseResult)
    ELSE <<createIssue("R1", "error",
                       Message(parseResult.error, <<>>, 0, 0), NoFix)>>

updateStateFromProcessed(st, processedText) ==
    [st EXCEPT !.currentText = processedText,
               !.issues = issuesOfParse(parseCommitMessage(processedText)),
               !.userChoices = Null]

\* the state update without preProcess
updateStateUntrimmed(st, t) == updateStateFromProcessed(st, t)

\* updateStateFromInput (part_004), the first lines of handleLint (part_005)
updateStateFromInput(st, t) == updateStateFromProcessed(st, preProcess(t))

\* required.every(choice => choice === 'type' ? type !== undefined : true)
allChosen(required, userChoices) ==
    \A i \in 1..Len(required) : required[i] = "type" => userChoices # Null

hasAllRequiredChoices(st) ==
    allChosen(getRequiredChoices(st.issues), st.userChoices)

computeFixedText(st) == applyFixes(st.currentText, st.issues, st.userChoices)

\* createIssueItem gives an issue a fix button
HasFixButton(issue) ==
    issue.fix # NoFix /\ issue.fix.kind # "require-user-choice"

\* what handleLint shows for the state st it has computed
renderLint(d, st) ==
    [d EXCEPT !.issuesList = st.issues,
              !.choicesVisible = requiresUserChoice(st.issues),
              !.required = IF requiresUserChoice(st.issues)
                           THEN getRequiredChoices(st.issues) ELSE @,
              !.outputVisible = FALSE,
              !.copyEnabled = FALSE]

\* the texts typed into the input
ShellInputs ==
    {<<>>, <<" "," "," ">>,
     S_feat \o <<":"," ","x">>,
     <<" ">> \o S_feat \o <<":"," ","x"," ">>,
     <<"F","i","x"," ","b","u","g",".">>,
     <<"F","E","A","T",":"," ","x",".","\n","b","o","d","y">>,
     S_feat \o <<"(","c","o","r","e",")"," ","a","d","d">>,
     <<"(","c","o","r","e",")",":"," ","x">>,
     PadTo(S_fix \o <<":">>, R9_WARN + 1, FALSE),
     join(<<<<"F","i","x"," ","b","u","g">>, <<>>, <<"b",":"," ","x">>,
            Pad(R9_WARN + 1, FALSE)>>)}

ShellInit ==
    /\ build \in Builds
    /\ input \in ShellInputs
    /\ state = createInitialState
    /\ dom \in {Dom(<<>>, c, <<>>, <<>>, o, e) : c, o, e \in BOOLEAN}
    /\ event = "none"
    /\ text = <<>>
    /\ choice = Null
    /\ pc = "shell"
    /\ parsed = NoParse
    /\ issues = <<>>
    /\ fixed = <<>>
    /\ cur = <<>>
    /\ k = 0
    /\ applied = NoFix
    /\ single = <<>>
    /\ reparsed = NoParse
    /\ reissues = <<>>
    /\ asked = NotAsked

\* the variables the handlers do not touch
ShellFrame ==
    UNCHANGED <<build, text, choice, pc, parsed, issues, fixed, cur, k,
                applied, single, reparsed, reissues, asked>>

\* the user replaces the content of the input
TypeInput(t) ==
    /\ t # input
    /\ input' = t
    /\ event' = "input"
    /\ UNCHANGED <<state, dom>>
    /\ ShellFrame

\* handleLint
HandleLint ==
    /\ state' = updateStateFromInput(state, input)
    /\ dom' = renderLint(dom, state')
    /\ event' = "lint"
    /\ UNCHANGED input
    /\ ShellFrame

\* handleChoiceChange: the user picks a type in the select that was rendered
HandleChoiceChange(c) ==
    /\ dom.choicesVisible
    /\ \E i \in 1..Len(dom.required) : dom.required[i] = "type"
    /\ state' = [state EXCEPT !.userChoices = c]
    /\ event' = "choice"
    /\ UNCHANGED <<input, dom>>
    /\ ShellFrame

\* a handler ends on an exception: what it had done so far stays
Aborted(st, d) == state' = st /\ dom' = d /\ UNCHANGED input

\* handleFix of part_005 from applyFixes on: the fixed text goes to the
\* output and the input, and handleLint runs
fixOldWith(st, d, fx) ==
    IF fx = Thrown THEN Aborted(st, d)
    ELSE /\ input' = fx
         /\ state' = updateStateFromInput([st EXCEPT !.fixedText = fx], fx)
         /\ dom' = renderLint([d EXCEPT !.output = fx], state')

\* handleFix of part_005 after its first test
fixOldFrom(st, d) ==
    IF requiresUserChoice(st.issues) /\ ~hasAllRequiredChoices(st)
    THEN Aborted(st, d)
    ELSE fixOldWith(st, d, computeFixedText(st))

\* handleFix of part_005: handleLint first when the state has no issue
handleFixOld ==
    IF Len(state.issues) = 0
    THEN fixOldFrom(updateStateFromInput(state, input),
                    renderLint(dom, updateStateFromInput(state, input)))
    ELSE fixOldFrom(state, dom)

\* what handleFix of part_004 shows
renderFix(d, fx, st) ==
    [d EXCEPT !.output = fx,
              !.outputVisible = TRUE,
              !.copyEnabled = TRUE,
              !.issuesList = st.issues,
              !.choicesVisible = IF requiresUserChoice(st.issues)
                                 THEN @ ELSE FALSE]

\* handleFix of part_004, fx being computeFixedText(state)
fixNewWith(fx) ==
    IF fx = Thrown THEN Aborted(state, dom)
    ELSE /\ input' = fx
         /\ state' = updateStateFromInput([state EXCEPT !.fixedText = fx], fx)
         /\ dom' = renderFix(dom, fx, state')

handleFixNew == fixNewWith(computeFixedText(state))

handleFix == IF build = "core" THEN handleFixOld ELSE handleFixNew

\* handleFix
HandleFix ==
    /\ handleFix
    /\ event' = "fix"
    /\ ShellFrame

\* a single fix that is not followed by handleLint
singleFixWithoutLint(t) ==
    IF t = Thrown THEN Aborted(state, dom)
    ELSE /\ input' = t
         /\ state' = [state EXCEPT !.currentText = t]
         /\ dom' = dom

\* handleApplySingleFix from applySingleIssueFix on
singleFixWith(t) ==
    IF t = Thrown THEN Aborted(state, dom)
    ELSE /\ input' = t
         /\ state' = updateStateFromInput(state, t)
         /\ dom' = renderLint(dom, state')

\* handleApplySingleFix: the fix button of the i-th issue of the list
HandleApplySingleFix(i) ==
    /\ HasFixButton(dom.issuesList[i])
    /\ singleFixWith(applySingleIssueFix(state.currentText, dom.issuesList[i],
                                         state.userChoices))
    /\ event' = "single"
    /\ ShellFrame

\* handleApplyChoices: the button of the user-choices section
HandleApplyChoices ==
    /\ dom.choicesVisible
    /\ IF hasAllRequiredChoices(state) THEN handleFix
       ELSE UNCHANGED <<input, state, dom>>
    /\ event' = "apply"
    /\ ShellFrame

ShellNext ==
    \/ \E t \in ShellInputs : TypeInput(t)
    \/ HandleLint
    \/ \E c \in Choices : HandleChoiceChange(c)
    \/ HandleFix
    \/ \E i \in 1..Len(dom.issuesList) : HandleApplySingleFix(i)
    \/ HandleApplyChoices

ShellSpec == ShellInit /\ [][ShellNext]_vars

-----------------------------------------------------------------------------
(* requiresUserChoice and getRequiredChoices, on lists of issues           *)

\* the most issues a list has
MaxIssues == 3

\* the issues the lists are made of: two that ask for a choice, one with
\* another fix, one with none
IssueSamples ==
    {createIssue("R2", "error", Message("R2_MISSING", <<>>, 0, 0),
                 FixRequireUserChoice),
     createIssue("R2", "error", Message("R2_INVALID", <<"f","o","o">>, 0, 0),
                 FixRequireUserChoice),
     createIssue("R4", "error", Message("R4_MISSING_COLON", <<>>, 0, 0),
                 FixInsertColon),
     createIssue("R7", "warning", Message("R7_WARN", <<>>, 0, 73), NoFix)}

ChoiceInit ==
    /\ build \in Builds
    /\ issues \in SeqsUpTo(IssueSamples, MaxIssues)
    /\ pc = "issues"
    /\ text = <<>>
    /\ choice = Null
    /\ parsed = NoParse
    /\ fixed = <<>>
    /\ cur = <<>>
    /\ k = 0
    /\ applied = NoFix
    /\ single = <<>>
    /\ reparsed = NoParse
    /\ reissues = <<>>
    /\ asked = NotAsked
    /\ input = <<>>
    /\ state = createInitialState
    /\ dom = InitialDom
    /\ event = "none"

\* requiresUserChoice(issues) and getRequiredChoices(issues)
Ask ==
    /\ pc = "issues"
    /\ asked' = [needs |-> requiresUserChoice(issues),
                 required |-> getRequiredChoices(issues)]
    /\ pc' = "asked"
    /\ UNCHANGED <<build, text, choice, parsed, issues, fixed, cur, k,
                   applied, single, reparsed, reissues, input, state, dom,
                   event>>

ChoiceNext == Ask

ChoiceSpec == ChoiceInit /\ [][ChoiceNext]_vars

-----------------------------------------------------------------------------
(* Properties                                                              *)

\* the issues of rule r among is
IssuesOf(is, r) == SelectSeq(is, LAMBDA x : x.rule = r)

\* the first line of the text once trimmed
FirstLine(t) == split(trim(t))[1]

\* C1: parseCommitMessage returns the failure outcome exactly when the text
\* is empty after trimming (every character of it is whitespace); for every
\* other text it returns a ParsedCommit whose lines[0] is its header, the
\* first line of the trimmed text.
C1_ParseFailsIffBlank ==
    pc # "start" =>
        /\ ~parsed.ok <=> \A i \in 1..Len(text) : IsSpace(text[i])
        /\ ~parsed.ok => parsed = [ok |-> FALSE, error |-> ParseError]
        /\ parsed.ok =>
              /\ parsed.lines[1] = parsed.header
              /\ Len(parsed.header) > 0
              /\ parsed.header = SubSeq(trim(text), 1, Len(parsed.header))
              /\ \A i \in 1..Len(parsed.header) : parsed.header[i] # "\n"
              /\ parsed.raw = text

\* a text of blanks only is refused
C1_Witness == pc = "failed" /\ Len(text) > 0

\* C2's texts: a first line made of a run of letters, optionally a
\* parenthesised scope, then whitespace, then a remainder that does not
\* begin with ':'
C2_Shape(h) ==
    LET n     == PrefixLen(h, Letters, TRUE)
        after == slice(h, n)
        close == indexOf(after, ")")
        rest  == IF Len(after) > 0 /\ after[1] = "(" /\ close # -1
                 THEN slice(after, close + 1) ELSE after
        ws    == PrefixLen(rest, Spaces, TRUE)
    IN  /\ n >= 1
        /\ ws >= 1
        /\ Len(rest) > ws
        /\ rest[ws + 1] # ":"

\* C2: for every text of that shape (such as 'feat add parser')
\* parseCommitMessage returns type = the run of letters and hasColon = false,
\* and lintCommit reports an R4 error carrying the insert-colon fix.
C2_NoColonGivesR4 ==
    (pc = "linted" /\ C2_Shape(FirstLine(text))) =>
        /\ parsed.type = SubSeq(FirstLine(text), 1,
                                PrefixLen(FirstLine(text), Letters, TRUE))
        /\ ~parsed.hasColon
        /\ \E i \in 1..Len(issues) :
              /\ issues[i].rule = "R4"
              /\ issues[i].severity = "error"
              /\ issues[i].fix = FixInsertColon

T_FixBug == <<"F","i","x"," ","b","u","g",".">>

Rules(is) == [i \in 1..Len(is) |-> is[i].rule]

\* what C3 claims for 'Fix bug.'
C3_AsClaimed ==
    /\ parsed.type = Null
    /\ parsed.subject = T_FixBug
    /\ Rules(issues) = <<"R2", "R6">>
    /\ issues[1].severity = "error"
    /\ issues[1].fix = FixRequireUserChoice
    /\ issues[2].severity = "warning"

\* C3 as stated: for the input 'Fix bug.' parseCommitMessage returns type
\* absent and subject = 'Fix bug.', and lintCommit returns exactly an R2
\* error carrying require-user-choice(type) followed by an R6 warning, with
\* no R4 and no R7 issue.
C3_FixBugAsStated == (pc = "linted" /\ text = T_FixBug) => C3_AsClaimed

\* C3, amended: for 'Fix bug.' the issues begin with an R2 error and end
\* with an R6 warning carrying remove-trailing-period, and there is no R7.
\* Under the header pattern that requires the ':' (core.ts) the rest is as
\* claimed: type absent, subject 'Fix bug.', R2 carrying
\* require-user-choice(type), no R4.  Under the pattern whose ':' is
\* optional (the parser module) 'Fix' is the type and 'bug.' the subject, R2
\* carries lowercase-type('Fix'), and an R4 error carrying insert-colon
\* stands between R2 and R6.
C3_FixBug ==
    (pc = "linted" /\ text = T_FixBug) =>
        /\ build = "core" => C3_AsClaimed
        /\ build = "modular" =>
              /\ parsed.type = <<"F","i","x">>
              /\ parsed.subject = <<"b","u","g",".">>
              /\ ~parsed.hasColon
              /\ Rules(issues) = <<"R2", "R4", "R6">>
              /\ issues[1].severity = "error"
              /\ issues[1].fix = FixLowercaseType(<<"F","i","x">>)
              /\ issues[2].severity = "error"
              /\ issues[2].fix = FixInsertColon
              /\ issues[3].severity = "warning"
        /\ issues[Len(issues)].fix = FixRemoveTrailingPeriod

C3_Witness == pc = "linted" /\ text = T_FixBug /\ build = "modular"

\* the eleven lowercase vocabulary tokens
C4_Vocabulary ==
    {S_feat, S_fix, S_docs, S_style, S_refactor, S_perf, S_test, S_build,
     S_ci, S_chore, S_revert}

\* C4: R2 emits at most one issue, decided by the parsed type: absent, an
\* error with require-user-choice(type); one of the eleven lowercase tokens,
\* no issue; a token only case-insensitively, an error with
\* lowercase-type(the type as written); anything else, an error with
\* require-user-choice(type).
C4_R2Classification ==
    pc = "linted" =>
        LET r2 == IssuesOf(issues, "R2")
        IN  /\ Len(r2) <= 1
            /\ \A i \in 1..Len(r2) : r2[i].severity = "error"
            /\ IF parsed.type = Null
               THEN Len(r2) = 1 /\ r2[1].fix = FixRequireUserChoice
               ELSE IF parsed.type \in C4_Vocabulary
               THEN Len(r2) = 0
               ELSE IF toLowerCase(parsed.type) \in C4_Vocabulary
               THEN Len(r2) = 1 /\ r2[1].fix = FixLowercaseType(parsed.type)
               ELSE Len(r2) = 1 /\ r2[1].fix = FixRequireUserChoice

\* a type in capitals gets the lowercase-type fix
C4_Witness ==
    /\ pc = "linted"
    /\ parsed.type = <<"F","E","A","T">>
    /\ \E i \in 1..Len(issues) : issues[i].fix.kind = "lowercase-type"

\* kebab-case or snake_case: segments of letters and digits joined by single
\* '-' or '_'
C5_KebabOrSnake(s) ==
    /\ Len(s) > 0
    /\ \A i \in 1..Len(s) : IsAlnum(s[i]) \/ s[i] \in {"-", "_"}
    /\ IsAlnum(s[1])
    /\ IsAlnum(s[Len(s)])
    /\ \A i \in 1..(Len(s) - 1) : IsAlnum(s[i]) \/ IsAlnum(s[i + 1])

\* C5: R3 is reported only when a scope is present, non-empty and not
\* kebab-case or snake_case; scopes such as 'my-scope', 'my_scope' and
\* 'core' never produce R3, and an absent or empty scope never does.
C5_R3OnlyForBadScope ==
    pc = "linted" =>
        ((\E i \in 1..Len(issues) : issues[i].rule = "R3") =>
            /\ parsed.scope # Null
            /\ Len(parsed.scope) > 0
            /\ ~C5_KebabOrSnake(parsed.scope))

\* C6: R7 emits at most one issue, decided by the length of the header
\* alone: an error above 100 characters, a warning from 73 to 100, nothing
\* up to 72.
C6_R7Thresholds ==
    pc = "linted" =>
        LET r7  == IssuesOf(issues, "R7")
            len == Len(parsed.header)
        IN  /\ Len(r7) <= 1
            /\ len <= 72 => Len(r7) = 0
            /\ (len >= 73 /\ len <= 100) =>
                  Len(r7) = 1 /\ r7[1].severity = "warning"
            /\ len > 100 => Len(r7) = 1 /\ r7[1].severity = "error"

\* a header of exactly 101 characters draws the error and no warning
C6_Witness ==
    /\ pc = "linted"
    /\ Len(parsed.header) = 101
    /\ \E i \in 1..Len(issues) :
          issues[i].rule = "R7" /\ issues[i].severity = "error"
    /\ \A i \in 1..Len(issues) :
          issues[i].rule = "R7" => issues[i].severity # "warning"

\* the R9 issues about the line at 0-based index n
C7_IssuesOfLine(n) ==
    SelectSeq(issues, LAMBDA x : x.rule = "R9" /\ x.fix.lineIndex = n)

\* C7: R9 looks at every line of the message on its own, the header
\* included: above 100 characters an error, from 76 to 100 a warning, up to
\* 75 nothing; each R9 issue carries the wrap-long-line fix with the 0-based
\* index of its own line.
C7_R9PerLine ==
    pc = "linted" =>
        /\ \A i \in 1..Len(parsed.lines) :
              LET r9  == C7_IssuesOfLine(i - 1)
                  len == Len(parsed.lines[i])
              IN  /\ len <= 75 => Len(r9) = 0
                  /\ (len >= 76 /\ len <= 100) =>
                        Len(r9) = 1 /\ r9[1].severity = "warning"
                  /\ len > 100 => Len(r9) = 1 /\ r9[1].severity = "error"
        /\ \A j \in 1..Len(issues) :
              issues[j].rule = "R9" =>
                  /\ issues[j].fix = FixWrapLongLine(issues[j].fix.lineIndex)
                  /\ issues[j].fix.lineIndex \in 0..(Len(parsed.lines) - 1)

\* an error on the header and a warning on a later line
C7_Witness ==
    /\ pc = "linted"
    /\ \E i, j \in 1..Len(issues) :
          /\ issues[i].rule = "R9" /\ issues[i].severity = "warning"
          /\ issues[i].fix.lineIndex > 0
          /\ issues[j].rule = "R9" /\ issues[j].severity = "error"
          /\ issues[j].fix.lineIndex = 0

\* C8: R8 fires exactly when the message has two lines or more and the line
\* right after the header (index 1) is not blank, whatever the parser found
\* as body: it is an error carrying ensure-blank-line, reported once.
C8_R8IffSecondLineNotBlank ==
    pc = "linted" =>
        LET r8 == IssuesOf(issues, "R8")
        IN  /\ Len(r8) <= 1
            /\ Len(r8) = 1 <=>
                  /\ Len(parsed.lines) >= 2
                  /\ \E i \in 1..Len(parsed.lines[2]) :
                        ~IsSpace(parsed.lines[2][i])
            /\ \A i \in 1..Len(r8) :
                  r8[i].severity = "error" /\ r8[i].fix = FixEnsureBlankLine

\* R8 on a two-line message whose body the parser reports absent
C8_Witness ==
    /\ pc = "linted"
    /\ Len(parsed.lines) = 2
    /\ parsed.body = Null
    /\ \E i \in 1..Len(issues) : issues[i].rule = "R8"

\* the number of a rule
C9_RuleNumber(r) ==
    CASE r = "R1" -> 1 [] r = "R2" -> 2 [] r = "R3" -> 3 [] r = "R4" -> 4
      [] r = "R5" -> 5 [] r = "R6" -> 6 [] r = "R7" -> 7 [] r = "R8" -> 8
      [] r = "R9" -> 9

\* C9: lintCommit returns the issues in the order of the rules, R1 to R8,
\* each at most once, and then the R9 issues by ascending line index.
C9_IssueOrder ==
    pc = "linted" =>
        \A i, j \in 1..Len(issues) :
            i < j =>
                /\ C9_RuleNumber(issues[i].rule) <= C9_RuleNumber(issues[j].rule)
                /\ issues[i].rule = issues[j].rule =>
                      /\ issues[i].rule = "R9"
                      /\ issues[i].fix.lineIndex < issues[j].fix.lineIndex

\* two R9 issues after an issue of an earlier rule
C9_Witness ==
    /\ pc = "linted"
    /\ Len(issues) >= 4
    /\ issues[1].rule = "R2"
    /\ issues[Len(issues) - 1].rule = "R9"
    /\ issues[Len(issues)].rule = "R9"

\* the run of single fixes has gone through all the issues, or has stopped
\* on an exception
C10_FoldDone == pc = "fixed" /\ (k > Len(issues) \/ cur = Thrown)

\* what C10 says of a state
C10_FoldAgrees ==
    /\ C10_FoldDone => cur = fixed
    /\ (pc = "fixed" /\ \A i \in 1..Len(issues) : issues[i].fix = NoFix) =>
          fixed = text

\* a step of the run over an issue that carries no fix
C10_NoFixStep ==
    pc = "fixed" /\ pc' = "fixed" /\ k' = k + 1 /\ issues[k].fix = NoFix

\* C10: applyFixes(text, issues, choices) is the left fold of
\* applySingleIssueFix over the issues in their order, starting from text
\* (fixed is what applyFixes returned, cur what the single fixes applied one
\* after the other have made of text); an issue with no fix leaves the text
\* as it is; when no issue carries a fix applyFixes returns text.
C10_ApplyFixesIsFold ==
    [](C10_FoldAgrees) /\ [][C10_NoFixStep => cur' = cur]_vars

\* a fold of two fixes or more that changed the text
C10_Witness ==
    /\ C10_FoldDone
    /\ k > Len(issues)
    /\ Len(SelectSeq(issues, LAMBDA x : x.fix # NoFix)) >= 2
    /\ \E i \in 1..Len(issues) : issues[i].fix = NoFix
    /\ fixed # text

\* C11: for every non-blank text and every user choice, applyFixes on the
\* issues of the text returns a string: no fix of the fold raises an
\* exception; a fix whose target line is no longer in the running text
\* leaves that text as it is.
C11_ApplyFixesTotal == pc = "fixed" => fixed # Thrown

\* the number of issues of is that carry a fix of the kind
CountKind(is, kind) == Len(SelectSeq(is, LAMBDA x : x.fix.kind = kind))

\* the kinds of fix C12 is about
C12_Kinds == {"lowercase-type", "insert-colon", "ensure-blank-line"}

\* after applyFixes, the issues of the kind are no more than before, and
\* fewer when there were any
C12_Fewer(kind) ==
    /\ CountKind(reissues, kind) <= CountKind(issues, kind)
    /\ CountKind(issues, kind) > 0 =>
          CountKind(reissues, kind) < CountKind(issues, kind)

\* C12: for every non-blank text and any user choice, parsing and linting
\* again what applyFixes returned never reports more issues carrying
\* lowercase-type, insert-colon or ensure-blank-line than the issues held,
\* and reports fewer of each of these kinds that was among them.
C12_FixedKindsDecrease ==
    pc = "relinted" => \A kind \in C12_Kinds : C12_Fewer(kind)

\* a single fix has been applied to the text
AppliedAlone(f) == pc \in {"one", "relinted-one"} /\ applied = f

\* the text has two lines or more and its line 1 is not blank
C13_NeedsBlankLine(ls) ==
    Len(ls) >= 2 /\ \E i \in 1..Len(ls[2]) : ~IsSpace(ls[2][i])

\* rs is ls with one empty line put after its first line
C13_BlankLineInserted(ls, rs) ==
    /\ Len(rs) = Len(ls) + 1
    /\ rs[1] = ls[1]
    /\ rs[2] = <<>>
    /\ \A i \in 2..Len(ls) : rs[i + 1] = ls[i]

\* what ensure-blank-line makes of the text
C13_FixResult ==
    IF C13_NeedsBlankLine(split(text))
    THEN C13_BlankLineInserted(split(text), split(single))
    ELSE single = text

C13_NoR8Again ==
    reparsed.ok /\ \A i \in 1..Len(reissues) : reissues[i].rule # "R8"

C14_Case ==
    /\ pc \in {"one", "relinted-one"}
    /\ applied.kind = "lowercase-type"
    /\ Len(text) >= Len(parsed.type)
    /\ SubSeq(text, 1, Len(parsed.type)) = parsed.type

\* C14: for every text that begins with a type token that is a vocabulary
\* token only case-insensitively (such as 'FEAT: thing'), the lowercase-type
\* fix of the R2 issue replaces exactly that token by its lowercase form and
\* leaves the rest of the text as it is, and linting the result again
\* reports no R2.
C14_LowercaseType ==
    C14_Case =>
        /\ applied = FixLowercaseType(parsed.type)
        /\ toLowerCase(parsed.type) \in C4_Vocabulary
        /\ Len(single) = Len(text)
        /\ \A i \in 1..Len(text) :
              single[i] = IF i <= Len(parsed.type)
                          THEN toLowerChar(text[i]) ELSE text[i]
        /\ pc = "relinted-one" =>
              /\ reparsed.ok
              /\ reparsed.type = toLowerCase(parsed.type)
              /\ \A i \in 1..Len(reissues) : reissues[i].rule # "R2"

\* 'FEAT: Thing' has become 'feat: Thing'
C14_Witness ==
    /\ pc = "relinted-one"
    /\ C14_Case
    /\ parsed.type = <<"F","E","A","T">>
    /\ \E i \in (Len(parsed.type) + 1)..Len(text) : IsUpper(text[i])

\* the length of the type and the scope in parentheses that open header h
C15_PrefixLen(h) ==
    LET n     == PrefixLen(h, Letters, TRUE)
        after == slice(h, n)
        close == indexOf(after, ")")
    IN  IF Len(after) > 0 /\ after[1] = "(" /\ close # -1
        THEN n + close + 1 ELSE n

\* the header insert-colon is claimed to write in place of h
C15_Header(h) ==
    SubSeq(h, 1, C15_PrefixLen(h)) \o <<":", " ">>
        \o trim(slice(h, C15_PrefixLen(h)))

\* C15: the insert-colon fix rewrites only the header, to the type, the
\* scope in its parentheses, ':', exactly one space and the trimmed
\* remainder (the type, the scope and ': ' alone when the remainder is
\* empty); it returns the text unchanged when the header does not begin with
\* a letter; the lines after the header are unchanged.
C15_InsertColonOneSpace ==
    AppliedAlone(FixInsertColon) =>
        LET ls == split(text)
        IN  IF Len(ls[1]) > 0 /\ IsLetter(ls[1][1])
            THEN /\ split(single)[1] = C15_Header(ls[1])
                 /\ Tail(split(single)) = Tail(ls)
            ELSE single = text

\* C16: on a text in which the parser finds no type, the
\* require-user-choice(type) fix with a chosen type c returns the text with
\* c inserted right before its first ':' and nothing else changed when the
\* text holds a ':', and c, ': ' and the trimmed text when it holds none;
\* with no chosen type it returns the text unchanged.
C16_ChoiceWithoutType ==
    (AppliedAlone(FixRequireUserChoice) /\ parsed.type = Null) =>
        IF choice = Null THEN single = text
        ELSE IF indexOf(text, ":") # -1
        THEN single = SubSeq(text, 1, indexOf(text, ":")) \o choice
                          \o slice(text, indexOf(text, ":"))
        ELSE single = choice \o <<":", " ">> \o trim(text)

\* the require-user-choice fix has been applied alone, with a chosen type,
\* to a text in which the parser finds a type
C17_Case ==
    /\ AppliedAlone(FixRequireUserChoice)
    /\ parsed.type # Null
    /\ choice # Null

\* the leading run of letters of the text has been replaced by the chosen
\* type; then the parser finds that type, and R2 is not reported
C17_TypeReplaced ==
    /\ single = choice \o slice(text, PrefixLen(text, Letters, TRUE))
    /\ pc = "relinted-one" =>
          /\ reparsed.ok
          /\ reparsed.type = choice
          /\ \A i \in 1..Len(reissues) : reissues[i].rule # "R2"

Words(line) == SelectSeq(splitWhitespace(line), LAMBDA w : Len(w) > 0)

\* the words of the lines, in order
RECURSIVE WordsOf(_)
WordsOf(lines) ==
    IF Len(lines) = 0 THEN <<>>
    ELSE Words(lines[1]) \o WordsOf(Tail(lines))

\* the wrap-long-line fix has been applied alone to a line of the text
C18_Case ==
    /\ pc \in {"one", "relinted-one"}
    /\ applied.kind = "wrap-long-line"

\* rs is ls with the line at 0-based index i replaced by m lines that hold
\* its words, filled greedily up to 72 characters
C18_Wrapped(ls, rs, i, m) ==
    /\ m >= 1
    /\ SubSeq(rs, 1, i) = SubSeq(ls, 1, i)
    /\ SubSeq(rs, i + m + 1, Len(rs)) = SubSeq(ls, i + 2, Len(ls))
    /\ WordsOf(SubSeq(rs, i + 1, i + m)) = Words(ls[i + 1])
    /\ \A j \in (i + 1)..(i + m) :
          Len(rs[j]) <= 72 \/ Len(Words(rs[j])) = 1
    /\ \A j \in (i + 1)..(i + m - 1) :
          Len(rs[j]) + 1 + Len(Words(rs[j + 1])[1]) > 72

\* C18: the wrap-long-line(i) fix replaces line i by one or more lines that
\* hold the same words, separated by whitespace, in the same order; each new
\* line has 72 characters at most unless it is one word longer than that;
\* the filling is greedy (a word opens a new line only when it does not fit
\* after one space within 72); every other line is unchanged.
C18_WrapLongLine ==
    C18_Case =>
        C18_Wrapped(split(text), split(single), applied.lineIndex,
                    Len(split(single)) - Len(split(text)) + 1)

\* a line of 101 characters in several words became two lines
C18_Witness ==
    /\ C18_Case
    /\ applied.lineIndex > 0
    /\ Len(split(text)[applied.lineIndex + 1]) = 101
    /\ Len(split(single)) = Len(split(text)) + 1

\* C19: requiresUserChoice(issues) is true exactly when the fix of some
\* issue is require-user-choice; getRequiredChoices(issues) lists each kind
\* of choice that is required exactly once, in the order of the first
\* occurrences, so it is not empty exactly when requiresUserChoice(issues)
\* is true.
C19_RequiredChoices ==
    pc = "asked" =>
        LET needing == {i \in 1..Len(issues) :
                           issues[i].fix.kind = "require-user-choice"}
            kinds   == {issues[i].fix.choiceType : i \in needing}
            req     == asked.required
        IN  /\ asked.needs <=> needing # {}
            /\ {req[j] : j \in 1..Len(req)} = kinds
            /\ \A j1, j2 \in 1..Len(req) : req[j1] = req[j2] => j1 = j2
            /\ Len(req) > 0 <=> asked.needs

\* two issues ask for the type, and it is listed once
C19_Witness ==
    /\ pc = "asked"
    /\ Len(SelectSeq(issues, NeedsChoice)) >= 2
    /\ asked.required = <<"type">>

\* the one issue of a text that does not parse
C20_ParseFailure ==
    createIssue("R1", "error", Message(ParseError, <<>>, 0, 0), NoFix)

\* after a lint of an input that is blank
C20_AfterLint ==
    (event = "lint" /\ AllSpace(input)) =>
        /\ state.issues = <<C20_ParseFailure>>
        /\ dom.issuesList = state.issues
        /\ \A i \in 1..Len(dom.issuesList) : ~HasFixButton(dom.issuesList[i])
        /\ ~requiresUserChoice(state.issues)
        /\ ~dom.choicesVisible

\* a fix that follows such a lint
C20_FixKeepsEmpty ==
    (event = "lint" /\ AllSpace(input) /\ event' = "fix") =>
        /\ input' = <<>>
        /\ state'.currentText = <<>>
        /\ state'.fixedText = <<>>
        /\ state'.issues = <<C20_ParseFailure>>

\* C20: when the input is empty after trimming, the issue list of the shell
\* after a lint is exactly one issue, with rule R1, severity error, the
\* reason of the parse failure as its message and no fix; so the list shows
\* no fix button, no user choice is asked for, and applying the fixes leaves
\* the text empty.
C20_EmptyInput == []C20_AfterLint /\ [][C20_FixKeepsEmpty]_vars

\* the fixes were applied after the lint of a blank input
C20_Witness ==
    /\ event = "fix"
    /\ state.issues = <<C20_ParseFailure>>
    /\ input = <<>>
    /\ state.fixedText = <<>>
    /\ dom.issuesList = state.issues

\* the 1-based indices of the blank lines after the first line
C21_Blank(ls) == {i \in 2..Len(ls) : AllSpace(ls[i])}

\* the 1-based index of the first blank line after the first line
C21_B(ls) == CHOOSE i \in C21_Blank(ls) : \A j \in C21_Blank(ls) : i <= j

C21_HasBody(ls) ==
    /\ C21_Blank(ls) # {}
    /\ C21_B(ls) < Len(ls)
    /\ \E j \in (C21_B(ls) + 1)..Len(ls) : ~AllSpace(ls[j])

\* C21: the parsed body is present exactly when a first blank line exists
\* at some index B >= 1, B is not the last line and some line after B is
\* not blank; it is then the trimmed join of the lines after B; otherwise
\* the body is absent.
C21_Body ==
    parsed.ok =>
        LET ls == parsed.lines
        IN  /\ ls = split(trim(text))
            /\ parsed.body # Null <=> C21_HasBody(ls)
            /\ C21_HasBody(ls) =>
                   parsed.body =
                       trim(join(SubSeq(ls, C21_B(ls) + 1, Len(ls))))

\* a body that follows a blank line which is not the second line
C21_Witness ==
    /\ parsed.ok
    /\ parsed.body # Null
    /\ C21_B(parsed.lines) = 3
    /\ Len(parsed.body) < Len(join(SubSeq(parsed.lines, 2, Len(parsed.lines))))

\* lintCommit has returned the issues
C22_Linted == pc \in {"linted", "fixed", "one", "relinted", "relinted-one"}

\* the severity and the fix the rule of an issue prescribes
C22_AsPrescribed(x) ==
    /\ x.rule \in {"R1", "R3", "R5", "R7"} => x.fix = NoFix
    /\ x.rule \in {"R1", "R3", "R5"} => x.severity = "error"
    /\ x.rule = "R4" => x.severity = "error" /\ x.fix = FixInsertColon
    /\ x.rule = "R6" =>
           x.severity = "warning" /\ x.fix = FixRemoveTrailingPeriod
    /\ x.rule = "R8" => x.severity = "error" /\ x.fix = FixEnsureBlankLine
    /\ x.rule = "R2" =>
           /\ x.severity = "error"
           /\ x.fix.kind \in {"lowercase-type", "require-user-choice"}
    /\ x.fix.kind # "trim-whitespace"

\* C22: every issue of lintCommit has the severity and the kind of fix its
\* rule prescribes: R1, R3, R5 and R7 carry no fix; R4 is an error with
\* insert-colon; R5 is an error emitted exactly when type and colon are
\* present and the subject is absent; R6 is a warning with
\* remove-trailing-period; R8 is an error with ensure-blank-line; R2 is an
\* error with lowercase-type or require-user-choice; no issue carries
\* trim-whitespace.
C22_RulesPrescribe ==
    C22_Linted =>
        /\ \A i \in 1..Len(issues) : C22_AsPrescribed(issues[i])
        /\ (\E i \in 1..Len(issues) : issues[i].rule = "R5")
               <=> (parsed.type # Null /\ parsed.hasColon
                    /\ parsed.subject = Null)

\* one lint reports R2 with lowercase-type, R5 and R8
C22_Witness ==
    /\ C22_Linted
    /\ \E i \in 1..Len(issues) :
          issues[i].rule = "R2" /\ issues[i].fix.kind = "lowercase-type"
    /\ \E i \in 1..Len(issues) : issues[i].rule = "R5"
    /\ \E i \in 1..Len(issues) : issues[i].rule = "R8"

\* parse then lint on the text t, as the shell does it
C23_ParseThenLint(t) ==
    IF parseCommitMessage(t).ok
    THEN lintCommit(parseCommitMessage(t))
    ELSE <<createIssue("R1", "error", Message(ParseError, <<>>, 0, 0), NoFix)>>

\* C23: whenever handleLint, handleFix or handleApplySingleFix has
\* returned, state.issues is the result of parse then lint on
\* state.currentText (the one issue of the parse failure when currentText
\* is empty): no handler leaves issues of an older text than currentText.
C23_IssuesOfCurrentText ==
    event \in {"lint", "fix", "single"} =>
        state.issues = C23_ParseThenLint(state.currentText)

\* a single fix has changed the text, and the issues left have no fix button
C23_Witness ==
    /\ event = "single"
    /\ state.currentText # <<>>
    /\ state.currentText = input
    /\ Len(state.issues) > 0
    /\ \A i \in 1..Len(state.issues) : ~HasFixButton(state.issues[i])

\* applyFixes ran without a user choice, on a text whose words have 72
\* characters at most, and its result was linted again
C24_Case ==
    /\ pc = "relinted"
    /\ choice = Null
    /\ \A i \in 1..Len(WordsOf(split(text))) :
          Len(WordsOf(split(text))[i]) <= 72

\* C24: in applyFixes over the issues of lintCommit with no user choice,
\* every wrap-long-line(i) fix rewraps the line that triggered it: for a
\* text in which every word has 72 characters at most, the re-lint of the
\* result reports no R9 issue, also when the same fold applies
\* ensure-blank-line or wraps an earlier line before it.
C24_WrapsItsLine ==
    C24_Case => \A i \in 1..Len(reissues) : reissues[i].rule # "R9"

\* C25: a require-user-choice(type) fix with a supplied type changes only
\* the header line: for every text of several lines, every line after the
\* first is the same before and after applySingleIssueFix, also when the
\* header has no ':' and a later line has one.
C25_ChoiceKeepsLaterLines ==
    (AppliedAlone(FixRequireUserChoice) /\ choice # Null
         /\ Len(split(text)) >= 2) =>
        /\ Len(split(single)) = Len(split(text))
        /\ \A i \in 2..Len(split(text)) : split(single)[i] = split(text)[i]

\* C26: for every text whose lint reports R6, the remove-trailing-period
\* fix of that issue changes only the header line and gives a text whose
\* re-lint reports no R6 (the subject no longer ends with '.').
C26_PeriodRemoved ==
    (pc = "relinted-one" /\ applied = FixRemoveTrailingPeriod
         /\ \E i \in 1..Len(issues) : issues[i].rule = "R6") =>
        /\ Len(split(single)) = Len(split(text))
        /\ \A i \in 2..Len(split(text)) : split(single)[i] = split(text)[i]
        /\ \A i \in 1..Len(reissues) : reissues[i].rule # "R6"

\* the header h has ':' directly after its type and scope
C27_HasColon(h) ==
    /\ Len(typeScopePrefix(h).type) > 0
    /\ Len(typeScopePrefix(h).rest) > 0
    /\ typeScopePrefix(h).rest[1] = ":"

\* C27: insert-colon is idempotent: applied to a text whose header already
\* has ':' directly after the type and scope (in particular to its own
\* output) it returns the text unchanged, so applying the fix of an R4
\* issue twice gives the same text as applying it once.
C27_InsertColonIdempotent ==
    AppliedAlone(FixInsertColon) =>
        /\ C27_HasColon(split(text)[1]) => single = text
        /\ (\E i \in 1..Len(issues) : issues[i].rule = "R4") =>
               applySingleFix(single, FixInsertColon, Null) = single

\* applyFixes of the content of the input, with the issues linted from
\* that content and the choice c
C28_FixOfInput(c) ==
    applyFixes(preProcess(input), C23_ParseThenLint(preProcess(input)), c)

\* a step of handleFix that writes the input
C28_FixStep ==
    (event' = "fix" /\ input' # input) =>
        input' \in {C28_FixOfInput(state.userChoices), C28_FixOfInput(Null)}

\* C28: handleFix fixes the text that is in the input when it is invoked:
\* after any sequence of lint, edit, choice and fix events, the text that
\* handleFix writes back to the input is applyFixes of the content of the
\* input at that moment with the issues linted from that content, so an
\* edit made after the last lint is never discarded or overwritten.
C28_FixesTheInput == [][C28_FixStep]_vars

\* a step of handleFix that has applied fixes: the output is visible, the
\* copy button enabled, and fixedText is the text of the input
C29_FixStep ==
    (event' = "fix" /\ input' # input) =>
        /\ dom'.outputVisible
        /\ dom'.copyEnabled
        /\ state'.fixedText = input'

\* the copy button becomes enabled by a fix only, and fixedText changes
\* by a fix only
C29_CopyStep ==
    /\ (dom'.copyEnabled /\ ~dom.copyEnabled) =>
           event' \in {"fix", "apply"} /\ dom'.output = state'.fixedText
    /\ state'.fixedText # state.fixedText => event' \in {"fix", "apply"}

\* C29: when handleFix has applied fixes and returned, the fixed-output
\* section is visible, the copy button is enabled and state.fixedText is
\* the text shown in the input; the copy button is enabled only in states
\* where state.fixedText is the result of the most recent fix.
C29_FixedOutputShown == [][C29_FixStep /\ C29_CopyStep]_vars

\* the R1 issues among is
C30_R1(is) == {i \in 1..Len(is) : is[i].rule = "R1"}

\* C30: for every ParsedCommit produced by parseCommitMessage the header is
\* not blank, so lintCommit never emits an R1 issue on the output of the
\* parser; an R1 issue reaches the shell only as the issue that stands for
\* the parse failure.
C30_NoR1OnParserOutput ==
    pc # "start" =>
        /\ parsed.ok =>
               /\ ~AllSpace(parsed.header)
               /\ C30_R1(lintCommit(parsed)) = {}
               /\ C30_R1(issues) = {}
        /\ \A i \in C30_R1(issuesOfParse(parsed)) :
               /\ ~parsed.ok
               /\ issuesOfParse(parsed)[i].message.id = ParseError
               /\ issuesOfParse(parsed)[i].fix = NoFix

\* a text that begins with a blank line was parsed and linted
C30_Witness ==
    /\ pc = "linted"
    /\ parsed.ok
    /\ text[1] = "\n"
    /\ Len(issues) > 0

====
